---------------------------- MODULE Spec2Model ----------------------------
(***************************************************************************)
(* A model of src/scraper.py: the PSX daily-activity scraper.             *)
(*                                                                         *)
(* Text is modelled as a sequence of one-character strings, so that       *)
(* strip/lower/upper/replace and substring tests are computed and not     *)
(* assumed.  The two non-ASCII characters handled by safe_num are written *)
(* "EMDASH" (U+2014) and "UMINUS" (U+2212).                                *)
(***************************************************************************)
EXTENDS Integers, Sequences, FiniteSets, TLC

VARIABLES
    pc,            \* position of the script: "connect", "loop", ... "done"
    run,           \* number of the current execution of the script
    ep,            \* index into endpoints of the endpoint being processed
    conn,          \* the pyodbc connection: "none", "open", "closed"
    resp,          \* the response of requests.post for the current endpoint
    data_json,     \* resp.json()
    raw_list,      \* the unwrapped payload
    df,            \* the DataFrame: [cols, rows]
    sql_cols,      \* the column list of the INSERT
    rowi,          \* the row of df.iterrows() the insert loop is at
    values,        \* the values built for the row, or the exception raised
    inserted,      \* the counter printed after the commit
    db,            \* per table: the committed (durable) rows
    txn,           \* per table: rows inserted in the open transaction
    scrapedat,     \* per table: whether the ScrapedAt column exists
    hist,          \* bookkeeping about the runs, read by the properties only
    fn, arg, ret   \* a call of one function on its own: name, input, result

vars == <<pc, run, ep, conn, resp, data_json, raw_list, df, sql_cols, rowi,
          values, inserted, db, txn, scrapedat, hist, fn, arg, ret>>

progVars == <<pc, run, ep, conn, resp, data_json, raw_list, df, sql_cols,
              rowi, values, inserted, db, txn, scrapedat, hist>>

----------------------------------------------------------------------------
(* Text helpers: str.strip, str.lower, str.upper, str.replace, "in".       *)

UpperAlpha == <<"A","B","C","D","E","F","G","H","I","J","K","L","M",
                "N","O","P","Q","R","S","T","U","V","W","X","Y","Z">>

LowerAlpha == <<"a","b","c","d","e","f","g","h","i","j","k","l","m",
                "n","o","p","q","r","s","t","u","v","w","x","y","z">>

\* c.lower(), c.upper() for the letters; every other character is kept
ToLower ==
    [c \in {UpperAlpha[i] : i \in DOMAIN UpperAlpha} |->
        LowerAlpha[CHOOSE i \in DOMAIN UpperAlpha : UpperAlpha[i] = c]]

ToUpper ==
    [c \in {LowerAlpha[i] : i \in DOMAIN LowerAlpha} |->
        UpperAlpha[CHOOSE i \in DOMAIN LowerAlpha : LowerAlpha[i] = c]]

LowerCh(c) == IF c \in DOMAIN ToLower THEN ToLower[c] ELSE c

UpperCh(c) == IF c \in DOMAIN ToUpper THEN ToUpper[c] ELSE c

Lower(s) == [i \in 1..Len(s) |-> LowerCh(s[i])]

Upper(s) == [i \in 1..Len(s) |-> UpperCh(s[i])]

IsSpace(c) == c = " "

RECURSIVE LStrip(_)
LStrip(s) ==
    IF Len(s) > 0 /\ IsSpace(s[1]) THEN LStrip(Tail(s)) ELSE s

RECURSIVE RStrip(_)
RStrip(s) ==
    IF Len(s) > 0 /\ IsSpace(s[Len(s)])
    THEN RStrip(SubSeq(s, 1, Len(s) - 1))
    ELSE s

Strip(s) == RStrip(LStrip(s))

\* s.replace(c, "")
Remove(s, c) == SelectSeq(s, LAMBDA ch : ch # c)

\* s.replace(c, d) for single characters
Replace(s, c, d) == [i \in 1..Len(s) |-> IF s[i] = c THEN d ELSE s[i]]

\* kw in s
Contains(s, kw) ==
    LET str == s
    IN  \E i \in 1..(Len(str) - Len(kw) + 1) :
            SubSeq(str, i, i + Len(kw) - 1) = kw

StartsWith(s, c) == Len(s) > 0 /\ s[1] = c

EndsWith(s, c) == Len(s) > 0 /\ s[Len(s)] = c

----------------------------------------------------------------------------
(* Values.  A cell of the DataFrame is [k, s]: k = "none" (None), "nan"   *)
(* (a key missing from a record), "str" (text s), "list" (a JSON array    *)
(* of two elements or more) or "series" (what row.get returns for a       *)
(* duplicated column label).  A value bound to an INSERT parameter is     *)
(* [k, m, d, s]: k = "none", "int" (m), "float" (m / 10^d, d > 0, m not   *)
(* divisible by 10), "text" (s) or "ts" (the timestamp m).                *)

CellNone == [k |-> "none", s |-> <<>>]

CellNaN == [k |-> "nan", s |-> <<>>]

CellStr(s) == [k |-> "str", s |-> s]

CellList == [k |-> "list", s |-> <<"[","1",","," ","2","]">>]

CellSeries ==
    [k |-> "series",
     s |-> <<"d","t","y","p","e",":"," ","o","b","j","e","c","t">>]

None == [k |-> "none", m |-> 0, d |-> 0, s |-> <<>>]

IntVal(n) == [k |-> "int", m |-> n, d |-> 0, s |-> <<>>]

FloatVal(n, e) == [k |-> "float", m |-> n, d |-> e, s |-> <<>>]

TextVal(t) == [k |-> "text", m |-> 0, d |-> 0, s |-> t]

TsVal(t) == [k |-> "ts", m |-> t, d |-> 0, s |-> <<>>]

\* str(x)
PyStr(x) == IF x.k = "nan" THEN <<"n","a","n">> ELSE x.s

----------------------------------------------------------------------------
(* float(s): optional surrounding blanks, an optional sign, then either   *)
(* digits with at most one point and at least one digit, or inf /         *)
(* infinity / nan in any case.  (Exponents and digit-group underscores    *)
(* use characters that no input of this model contains.)  The result is   *)
(* [ok, kind, m, d]: the value m / 10^d when kind = "fin".                 *)

Digits == <<"0","1","2","3","4","5","6","7","8","9">>

IsDigit(c) == \E i \in DOMAIN Digits : Digits[i] = c

DigitVal(c) == (CHOOSE i \in DOMAIN Digits : Digits[i] = c) - 1

RECURSIVE DigitsToInt(_, _)
DigitsToInt(s, acc) ==
    IF s = <<>> THEN acc ELSE DigitsToInt(Tail(s), acc * 10 + DigitVal(s[1]))

RECURSIVE Pow10(_)
Pow10(e) == IF e = 0 THEN 1 ELSE 10 * Pow10(e - 1)

Abs(n) == IF n < 0 THEN -n ELSE n

NoFloat == [ok |-> FALSE, kind |-> "fin", m |-> 0, d |-> 0]

ParseFloat(str) ==
    LET t == Strip(str)
        signed == Len(t) > 0 /\ t[1] \in {"-", "+"}
        neg == Len(t) > 0 /\ t[1] = "-"
        body == IF signed THEN Tail(t) ELSE t
        word == Lower(body)
        points == Len(SelectSeq(body, LAMBDA c : c = "."))
        digs == SelectSeq(body, LAMBDA c : c # ".")
        frac == IF points = 0 THEN 0
                ELSE Len(body) - (CHOOSE i \in 1..Len(body) : body[i] = ".")
        mag == DigitsToInt(digs, 0)
    IN  IF word \in {<<"i","n","f">>, <<"i","n","f","i","n","i","t","y">>}
        THEN [ok |-> TRUE, kind |-> "inf", m |-> 0, d |-> 0]
        ELSE IF word = <<"n","a","n">>
        THEN [ok |-> TRUE, kind |-> "nan", m |-> 0, d |-> 0]
        ELSE IF points <= 1 /\ Len(digs) > 0
                /\ \A i \in 1..Len(digs) : IsDigit(digs[i])
        THEN [ok |-> TRUE, kind |-> "fin",
              m |-> IF neg THEN -mag ELSE mag, d |-> frac]
        ELSE NoFloat

\* rel_tol of math.isclose, as its reciprocal
IsCloseRelInv == 1000000000

\* math.isclose(f, int(f)) for f = m / 10^d: |f - int(f)| <= 1e-9 * |f|
IsCloseToInt(m, d) ==
    LET r == Abs(m) % Pow10(d)
    IN  r = 0 \/ (Abs(m) \div r) >= IsCloseRelInv

\* int(f): truncation toward zero
TruncInt(m, d) ==
    IF m < 0 THEN -(Abs(m) \div Pow10(d)) ELSE m \div Pow10(d)

RECURSIVE NormFloat(_, _)
NormFloat(m, d) ==
    IF d > 0 /\ m % 10 = 0 THEN NormFloat(m \div 10, d - 1)
    ELSE IF d = 0 THEN IntVal(m) ELSE FloatVal(m, d)

NullTokens == {<<"n","a">>, <<"n","/","a">>, <<"-">>, <<"-","-">>}

\* line 20
CleanNum(s) ==
    Replace(Remove(Remove(Remove(s, ","), "%"), "EMDASH"), "UMINUS", "-")

\* lines 22-23
Unparen(s) ==
    IF StartsWith(s, "(") /\ EndsWith(s, ")")
    THEN <<"-">> \o SubSeq(s, 2, Len(s) - 1)
    ELSE s

safe_num(x) ==
    IF x.k = "none" THEN None
    ELSE
      LET s == Strip(PyStr(x))
      IN  IF s = <<>> \/ Lower(s) \in NullTokens THEN None
          ELSE
            LET f == ParseFloat(Unparen(CleanNum(s)))
            IN  IF ~f.ok THEN None              \* float(s) raises ValueError
                ELSE IF f.kind # "fin" THEN None \* int(f) raises
                ELSE IF IsCloseToInt(f.m, f.d) THEN IntVal(TruncInt(f.m, f.d))
                ELSE NormFloat(f.m, f.d)

----------------------------------------------------------------------------
(* A call of safe_num on its own.                                          *)

MaxNumLen == 3

NumAlphabet ==
    {"0", "1", "5", ",", "%", "(", ")", "-", ".", " ", "n", "a", "N", "/"}

NumSamples ==
    { <<"1",",","2","3","4">>, <<"1","2",".","5","0">>, <<"(","1","2",")">>,
      <<"4","5",",","0","0","0">>, <<"(","2","0","0",")">>,
      <<"a","b","c">>, <<"N","/","A">>, <<"n","/","a">>,
      <<"EMDASH","5">>, <<"UMINUS","5">>, <<"(","UMINUS","5",")">>,
      <<"i","n","f">>, <<"-","I","n","f","i","n","i","t","y">>,
      <<"4","5","0","0","0",".","5">>,
      <<"1","0","0","0","0","0","0","0","0",".","1">>,
      <<"2","0","0",",","0","0","0",",","0","0","0",".","2">>,
      <<"(","1","0","0","0","0","0","0","0","0",".","1",")">> }

NumInputs ==
    {CellNone, CellNaN, CellList, CellSeries}
    \cup {CellStr(s) : s \in NumSamples}
    \cup {CellStr(s) : s \in UNION {[1..n -> NumAlphabet] : n \in 0..MaxNumLen}}

Pending == [k |-> "pending"]

IdleProg ==
    /\ pc = "idle" /\ run = 0 /\ ep = 0 /\ conn = "none"
    /\ resp = <<>> /\ data_json = <<>> /\ raw_list = <<>> /\ df = <<>>
    /\ sql_cols = <<>> /\ rowi = 0 /\ values = <<>> /\ inserted = 0
    /\ db = <<>> /\ txn = <<>> /\ scrapedat = <<>> /\ hist = <<>>

InitNum ==
    /\ IdleProg
    /\ fn = "safe_num" /\ arg \in NumInputs /\ ret = Pending

CallSafeNum ==
    /\ fn = "safe_num" /\ ret = Pending
    /\ ret' = safe_num(arg)
    /\ UNCHANGED <<fn, arg>>
    /\ UNCHANGED progVars

NextNum == CallSafeNum

SpecNum == InitNum /\ [][NextNum]_vars

\* What the claim says safe_num returns: absence for None, blank, a
\* null-token or text that is no number; otherwise the number the cleaned
\* text denotes, an integer when it is whole.
Denoted(x) ==
    IF x.k = "none" THEN None
    ELSE
      LET s == Strip(PyStr(x))
      IN  IF s = <<>> \/ Lower(s) \in NullTokens THEN None
          ELSE
            LET f == ParseFloat(Unparen(CleanNum(s)))
            IN  IF ~f.ok \/ f.kind # "fin" THEN None
                ELSE NormFloat(f.m, f.d)

\* C8: safe_num returns, for every input, absence or the number denoted by
\* the cleaned input (an integer when that number is whole).
C8_SafeNumDenotes ==
    (fn = "safe_num" /\ ret # Pending) => ret = Denoted(arg)

----------------------------------------------------------------------------
(* JSON payloads.  A JSON value is [k, v]: k = "dict" (v the items        *)
(* <<key, value>> in order), "list" (v the records, each a sequence of    *)
(* <<field name, cell>>), "num" (a non-zero number), "str" (a non-empty   *)
(* string) or "null" (None).                                               *)

JNull == [k |-> "null", v |-> <<>>]

JNum == [k |-> "num", v |-> <<>>]

JStr == [k |-> "str", v |-> <<>>]

JList(recs) == [k |-> "list", v |-> recs]

JDict(items) == [k |-> "dict", v |-> items]

HasKey(j, key) == \E i \in DOMAIN j.v : j.v[i][1] = key

GetKey(j, key) == j.v[CHOOSE i \in DOMAIN j.v : j.v[i][1] = key][2]

\* bool(x) of a JSON value
Truthy(j) == j.k \in {"num", "str"} \/ (j.k \in {"list", "dict"} /\ j.v # <<>>)

\* lines 124-129: the first value of the dict that is a list, else None
FirstList(j) ==
    IF \E i \in DOMAIN j.v : j.v[i][2].k = "list"
    THEN LET first == CHOOSE i \in DOMAIN j.v :
                        /\ j.v[i][2].k = "list"
                        /\ \A h \in 1..(i - 1) : j.v[h][2].k # "list"
         IN  j.v[first][2]
    ELSE JNull

\* lines 117-129.  [k |-> "raise"] is the AttributeError of .values() on a
\* payload that is neither a dict nor a list.
Unwrap(j) ==
    IF j.k = "dict" /\ HasKey(j, "d") THEN [k |-> "ok", v |-> GetKey(j, "d")]
    ELSE IF j.k = "list" THEN [k |-> "ok", v |-> j]
    ELSE IF j.k # "dict" THEN [k |-> "raise", v |-> JNull]
    ELSE [k |-> "ok", v |-> FirstList(j)]

----------------------------------------------------------------------------
(* A call of the envelope unwrapping on its own.                           *)

MaxEnvKeys == 2

EnvKeys == {"d", "x", "y"}

EnvRecord == << <<<<"a">>, CellStr(<<"1">>)>> >>

EnvValues == {JList(<<EnvRecord>>), JList(<<>>), JNum, JStr, JNull}

EnvKeySeqs ==
    {ks \in UNION {[1..n -> EnvKeys] : n \in 1..MaxEnvKeys} :
        \A i, h \in DOMAIN ks : i # h => ks[i] # ks[h]}

EnvPayloads ==
    EnvValues
    \cup UNION {{JDict([i \in DOMAIN ks |-> <<ks[i], vs[i]>>]) :
                    vs \in [DOMAIN ks -> EnvValues]} : ks \in EnvKeySeqs}

InitEnv ==
    /\ IdleProg
    /\ fn = "unwrap" /\ arg \in EnvPayloads /\ ret = Pending

CallUnwrap ==
    /\ fn = "unwrap" /\ ret = Pending
    /\ ret' = Unwrap(arg)
    /\ UNCHANGED <<fn, arg>>
    /\ UNCHANGED progVars

NextEnv == CallUnwrap

SpecEnv == InitEnv /\ [][NextEnv]_vars

\* The list the claim says the unwrapper resolves to (JNull for absence).
ClaimedUnwrap(j) ==
    IF j.k = "dict" /\ HasKey(j, "d") /\ GetKey(j, "d").k = "list"
    THEN GetKey(j, "d")
    ELSE IF j.k = "list" THEN j
    ELSE IF j.k = "dict" THEN FirstList(j)
    ELSE JNull

\* The batch that gets processed: a non-empty list, or nothing (absence,
\* an empty list and an error all leave the endpoint without a batch).
BatchOf(j) == IF j.k = "list" /\ j.v # <<>> THEN j ELSE JNull

\* C7: the unwrapper resolves "d" (when a list), else the payload itself
\* (when a list), else the first list among the dict's values, else absence.
C7_UnwrapOrder ==
    (fn = "unwrap" /\ ret # Pending) =>
        BatchOf(ret.v) = BatchOf(ClaimedUnwrap(arg))

----------------------------------------------------------------------------
(* The DataFrame and the column mapping.                                   *)

DailyActivity_1 == 1

DailyActivity_2 == 2

ScrapedAt == <<"S","c","r","a","p","e","d","A","t">>

\* lines 73-81
map_table1 ==
    << <<<<"k","s","e","_","i","n","d","e","x","_","t","y","p","e">>,
         <<"N","a","m","e">>>>,
       <<<<"k","s","e","_","i","n","d","e","x","_","o","p","e","n">>,
         <<"O","p","e","n">>>>,
       <<<<"k","s","e","_","i","n","d","e","x","_","h","i","g","h">>,
         <<"H","i","g","h">>>>,
       <<<<"k","s","e","_","i","n","d","e","x","_","l","o","w">>,
         <<"L","o","w">>>>,
       <<<<"k","s","e","_","i","n","d","e","x","_","c","l","o","s","e">>,
         <<"C","l","o","s","e">>>>,
       <<<<"k","s","e","_","i","n","d","e","x","_","v","a","l","u","e">>,
         <<"V","a","l","u","e">>>>,
       <<<<"k","s","e","_","i","n","d","e","x","_","c","h","a","n","g","e">>,
         <<"C","h","a","n","g","e">>>> >>

\* line 143
expected_cols ==
    << <<"N","a","m","e">>, <<"O","p","e","n">>, <<"H","i","g","h">>,
       <<"L","o","w">>, <<"C","l","o","s","e">>, <<"V","a","l","u","e">>,
       <<"C","h","a","n","g","e">> >>

\* lines 151-164: the keyword tests of the inference loop, in order
infer_table1 ==
    << <<<<"t","y","p","e">>, <<"N","a","m","e">>>>,
       <<<<"o","p","e","n">>, <<"O","p","e","n">>>>,
       <<<<"h","i","g","h">>, <<"H","i","g","h">>>>,
       <<<<"l","o","w">>, <<"L","o","w">>>>,
       <<<<"c","l","o","s","e">>, <<"C","l","o","s","e">>>>,
       <<<<"v","a","l","u","e">>, <<"V","a","l","u","e">>>>,
       <<<<"c","h","a","n","g","e">>, <<"C","h","a","n","g","e">>>> >>

\* lines 171-188: the keyword tests of the elif chain, in order
infer_table2 ==
    << <<<<"s","e","c","t","o","r">>, <<"S","E","C","T","O","R">>>>,
       <<<<"c","o","d","e">>, <<"C","O","D","E">>>>,
       <<<<"n","a","m","e">>, <<"N","A","M","E">>>>,
       <<<<"o","p","e","n">>, <<"O","P","E","N">>>>,
       <<<<"h","i","g","h">>, <<"H","I","G","H">>>>,
       <<<<"l","o","w">>, <<"L","O","W">>>>,
       <<<<"c","l","o","s","e">>, <<"C","L","O","S","E">>>>,
       <<<<"v","o","l">>, <<"V","O","L","U","M","E">>>>,
       <<<<"c","h","a","n","g","e">>, <<"C","H","A","N","G","E">>>> >>

\* line 211
desired ==
    << <<"S","E","C","T","O","R">>, <<"C","O","D","E">>, <<"N","A","M","E">>,
       <<"O","P","E","N">>, <<"H","I","G","H">>, <<"L","O","W">>,
       <<"C","L","O","S","E">>, <<"V","O","L","U","M","E">>,
       <<"C","H","A","N","G","E">> >>

\* line 245
text_cols ==
    {<<"n","a","m","e">>, <<"s","e","c","t","o","r">>, <<"c","o","d","e">>}

InCols(c, cols) == \E i \in DOMAIN cols : cols[i] = c

FirstIndex(cols, c) ==
    CHOOSE i \in DOMAIN cols : cols[i] = c /\ \A h \in 1..(i - 1) : cols[h] # c

\* The keys of the records in order of first appearance.
RECURSIVE KeysOf(_, _)
KeysOf(recs, acc) ==
    IF recs = <<>> THEN acc
    ELSE LET rec == Head(recs)
             new == SelectSeq([i \in 1..Len(rec) |-> rec[i][1]],
                              LAMBDA c : ~InCols(c, acc))
         IN  KeysOf(Tail(recs), acc \o new)

FieldOf(rec, c) ==
    IF \E i \in DOMAIN rec : rec[i][1] = c
    THEN rec[CHOOSE i \in DOMAIN rec : rec[i][1] = c][2]
    ELSE CellNaN

\* line 135: pd.DataFrame(raw_list) for a list of records
Frame(recs) ==
    LET cols == KeysOf(recs, <<>>)
    IN  [cols |-> cols,
         rows |-> [r \in 1..Len(recs) |->
                     [i \in 1..Len(cols) |-> FieldOf(recs[r], cols[i])]]]

\* df.rename(columns={src: dst})
RenameCol(cols, src, dst) ==
    [i \in 1..Len(cols) |-> IF cols[i] = src THEN dst ELSE cols[i]]

\* line 142: df.rename(columns=map_table1)
RenameKnown(cols) ==
    [i \in 1..Len(cols) |->
        IF \E j \in DOMAIN map_table1 : map_table1[j][1] = cols[i]
        THEN map_table1[CHOOSE j \in DOMAIN map_table1 :
                            map_table1[j][1] = cols[i]][2]
        ELSE cols[i]]

\* lines 151-164 for one src: every test runs, each on the columns as the
\* renames before it left them
RECURSIVE InferOne(_, _, _)
InferOne(cols, src, j) ==
    IF j > Len(infer_table1) THEN cols
    ELSE LET hit == /\ Contains(Lower(src), infer_table1[j][1])
                    /\ ~InCols(infer_table1[j][2], cols)
         IN  InferOne(IF hit THEN RenameCol(cols, src, infer_table1[j][2])
                      ELSE cols,
                      src, j + 1)

\* lines 149-164: for src in list(df.columns)
RECURSIVE InferAll(_, _, _)
InferAll(cols, snapshot, i) ==
    IF i > Len(snapshot) THEN cols
    ELSE InferAll(InferOne(cols, snapshot[i], 1), snapshot, i + 1)

\* lines 140-164
MapTable1(cols) ==
    LET renamed == RenameKnown(cols)
        missing == SelectSeq(expected_cols, LAMBDA c : ~InCols(c, renamed))
    IN  IF missing # <<>> THEN InferAll(renamed, renamed, 1) ELSE renamed

\* lines 171-188 for one src: the first branch of the elif chain whose
\* test holds (0 when none does); the tests read df.columns, which the
\* loop does not change
Branch2(src, cols) ==
    LET holds(j) == /\ Contains(Lower(src), infer_table2[j][1])
                    /\ ~InCols(infer_table2[j][2], cols)
    IN  IF \E j \in DOMAIN infer_table2 : holds(j)
        THEN CHOOSE j \in DOMAIN infer_table2 :
                holds(j) /\ \A h \in 1..(j - 1) : ~holds(h)
        ELSE 0

\* lines 165-190
MapTable2(cols) ==
    [i \in 1..Len(cols) |->
        IF Branch2(cols[i], cols) = 0 THEN cols[i]
        ELSE infer_table2[Branch2(cols[i], cols)][2]]

MapColumns(table_name, cols) ==
    IF table_name = DailyActivity_1 THEN MapTable1(cols) ELSE MapTable2(cols)

\* lines 216-220
HasActual(cols, exp) == \E i \in DOMAIN cols : Upper(Strip(cols[i])) = exp

Lookup(cols, exp) ==
    cols[CHOOSE i \in DOMAIN cols :
            /\ Upper(Strip(cols[i])) = exp
            /\ \A h \in 1..(i - 1) : Upper(Strip(cols[h])) # exp]

\* the intersection with the frame's columns, for both tables
SqlColsPresent(table_name, cols) ==
    IF table_name = DailyActivity_1
    THEN SelectSeq(expected_cols, LAMBDA c : InCols(c, cols)) \o <<ScrapedAt>>
    ELSE LET matched == SelectSeq(desired, LAMBDA exp : HasActual(cols, exp))
         IN  [i \in 1..Len(matched) |-> Lookup(cols, matched[i])]
             \o <<ScrapedAt>>

\* lines 205-222
SqlCols(table_name, cols) ==
    IF table_name = DailyActivity_1
    THEN expected_cols \o <<ScrapedAt>>
    ELSE LET matched == SelectSeq(desired, LAMBDA exp : HasActual(cols, exp))
         IN  [i \in 1..Len(matched) |-> Lookup(cols, matched[i])]
             \o <<ScrapedAt>>

\* row.get(label): a Series when the label names several columns
RowGet(row, cols, label) ==
    IF Cardinality({i \in DOMAIN cols : cols[i] = label}) > 1
    THEN CellSeries
    ELSE row[FirstIndex(cols, label)]

\* lines 233-241
ActualCol(col, cols) ==
    IF InCols(col, cols) THEN col
    ELSE IF HasActual(cols, Upper(Strip(col)))
         THEN Lookup(cols, Upper(Strip(col)))
         ELSE col

\* lines 229-251 for one column: [k |-> "ok", v |-> value], or
\* [k |-> "raise"]: pd.isna of a list or of a Series is an array, and its
\* truth value in "None if pd.isna(v) else ..." raises ValueError
ValueFor(col, row, cols, now) ==
    IF col = ScrapedAt THEN [k |-> "ok", v |-> TsVal(now)]
    ELSE
      LET actual_col == ActualCol(col, cols)
          v == IF InCols(actual_col, cols) THEN RowGet(row, cols, actual_col)
               ELSE CellNone
      IN  IF Lower(col) \in text_cols
          THEN IF v.k \in {"list", "series"} THEN [k |-> "raise", v |-> None]
               ELSE IF v.k \in {"none", "nan"} THEN [k |-> "ok", v |-> None]
               ELSE [k |-> "ok", v |-> TextVal(Strip(PyStr(v)))]
          ELSE [k |-> "ok", v |-> safe_num(v)]

\* lines 227-251: the values of one row, or the exception that ends the
\* endpoint's processing
BuildValues(row, cols, sqlcols, now) ==
    LET each == [i \in 1..Len(sqlcols) |-> ValueFor(sqlcols[i], row, cols, now)]
    IN  IF \E i \in DOMAIN each : each[i].k = "raise"
        THEN [k |-> "raise", cols |-> sqlcols, vals |-> <<>>]
        ELSE [k |-> "ok", cols |-> sqlcols,
              vals |-> [i \in 1..Len(sqlcols) |-> each[i].v]]

----------------------------------------------------------------------------
(* A call of the mapping and of the row construction on one record.       *)

MaxFields == 3

MapNames ==
    { <<"k","s","e","_","i","n","d","e","x","_","o","p","e","n">>,
      <<"O","p","e","n">>,
      <<"t","y","p","e","_","n","a","m","e">>,
      <<"s","e","c","t","o","r","_","c","o","d","e">>,
      <<"s","e","c","t","o","r","_","n","a","m","e">>,
      <<"S","E","C","T","O","R">>,
      <<"h","i","g","h","l","o","w">> }

MapCells == {CellStr(<<"4","5",",","5","0","0">>), CellList}

MapNameSeqs ==
    {ns \in UNION {[1..n -> MapNames] : n \in 1..MaxFields} :
        \A i, h \in DOMAIN ns : i # h => ns[i] # ns[h]}

MapRecords ==
    UNION {{[i \in DOMAIN ns |-> <<ns[i], cs[i]>>] :
                cs \in [DOMAIN ns -> MapCells]} : ns \in MapNameSeqs}

InitMap ==
    /\ IdleProg
    /\ fn = "map"
    /\ arg \in [table_name : {DailyActivity_1, DailyActivity_2},
               rec : MapRecords]
    /\ ret = Pending

CallMap ==
    /\ fn = "map" /\ ret = Pending
    /\ LET frame == Frame(<<arg.rec>>)
           cols == MapColumns(arg.table_name, frame.cols)
       IN  ret' = [k |-> "done", cols |-> cols,
                   row |-> BuildValues(frame.rows[1], cols,
                                       SqlCols(arg.table_name, cols), 0)]
    /\ UNCHANGED <<fn, arg>>
    /\ UNCHANGED progVars

NextMap == CallMap

SpecMap == InitMap /\ [][NextMap]_vars

Canonical(table_name) ==
    IF table_name = DailyActivity_1 THEN expected_cols ELSE desired

Count(cols, c) == Cardinality({i \in DOMAIN cols : cols[i] = c})

\* C6: after the mapping no two columns carry the same canonical name (at
\* most one raw field is bound to each canonical field).
C6_OneRawPerCanonical ==
    (fn = "map" /\ ret # Pending) =>
        \A i \in DOMAIN Canonical(arg.table_name) :
            Count(ret.cols, Canonical(arg.table_name)[i]) <= 1

ValueAt(row, c) == row.vals[FirstIndex(row.cols, c)]

----------------------------------------------------------------------------
(* The script: connect, the loop over the endpoints, cleanup.              *)

MaxRuns == 2

\* lines 58-61, in the order the loop visits them
endpoints == <<DailyActivity_1, DailyActivity_2>>

Tables == {DailyActivity_1, DailyActivity_2}

NotJson == [k |-> "html", v |-> <<>>]

NoResp == [status_code |-> 0, body |-> JNull]

NoFrame == [cols |-> <<>>, rows |-> <<>>]

NoValues == [k |-> "none", cols |-> <<>>, vals |-> <<>>]

Is2xx(code) == code >= 200 /\ code < 300

RecIndex ==
    << <<<<"k","s","e","_","i","n","d","e","x","_","t","y","p","e">>,
         CellStr(<<"K","S","E","1","0","0">>)>>,
       <<<<"k","s","e","_","i","n","d","e","x","_","o","p","e","n">>,
         CellStr(<<"4","5",",","0","0","0">>)>> >>

\* a record whose name fields hold JSON arrays
RecListCell ==
    << <<<<"k","s","e","_","i","n","d","e","x","_","t","y","p","e">>,
         CellList>>,
       <<<<"t","y","p","e","_","n","a","m","e">>, CellList>> >>

Bodies ==
    { NotJson,
      JDict(<< <<"d", JList(<<RecIndex, RecIndex>>)>> >>),
      JList(<<RecIndex, RecListCell>>),
      JDict(<< <<"x", JNum>>, <<"y", JList(<<RecIndex>>)>> >>),
      JDict(<< <<"x", JNum>> >>),
      JList(<< <<>> >>),
      JDict(<< <<"d", JStr>> >>),
      JNum }

StatusCodes == {200, 500}

NoRows == [t \in Tables |-> <<>>]

\* line 257
Executed(rows, row) == Append(rows, row)

\* the variant of the commit that rewrites a table with the new rows
CommittedReplacing(durable, open) ==
    [t \in Tables |-> IF open[t] # <<>> THEN open[t] ELSE durable[t]]

\* conn.commit(): every row inserted in the open transaction, of whatever
\* table, becomes durable (lines 46 and 264)
Committed(durable, open) == [t \in Tables |-> durable[t] \o open[t]]

\* the variant of the cleanup that leaves the connection as it is
KeptOpen(c) == c

\* line 274: conn.close()
Closed(c) == "closed"

\* the variant in which an exception leaves the loop
LeaveLoop(e) == Len(endpoints) + 1

\* lines 267-270: the handlers are inside the loop body, the loop goes on
AfterHandler(e) == e + 1

\* lines 114, 133, 199: continue
AfterContinue(e) == e + 1

InitHist ==
    [ acquired |-> 0,
      fetched |-> [e \in DOMAIN endpoints |-> 0],
      outcome |-> [e \in DOMAIN endpoints |-> "none"],
      late |-> FALSE,
      db0 |-> NoRows,
      offered |-> NoRows,
      fate |-> NoRows,
      attempts |-> NoRows ]

Init ==
    /\ pc = "connect" /\ run = 1 /\ ep = 0 /\ conn = "none"
    /\ resp = NoResp /\ data_json = JNull /\ raw_list = JNull
    /\ df = NoFrame /\ sql_cols = <<>> /\ rowi = 0 /\ values = NoValues
    /\ inserted = 0
    /\ db = NoRows /\ txn = NoRows
    /\ scrapedat = [t \in Tables |-> FALSE]
    /\ hist = InitHist
    /\ fn = "idle" /\ arg = <<>> /\ ret = <<>>

table_name == endpoints[ep]

InLoop == ep \in DOMAIN endpoints

\* the state the loop body's locals are left in between two endpoints
ClearLocals ==
    /\ resp' = NoResp /\ data_json' = JNull /\ raw_list' = JNull
    /\ df' = NoFrame /\ sql_cols' = <<>> /\ rowi' = 0 /\ values' = NoValues
    /\ inserted' = 0

Outcome(h, what) == [h EXCEPT !.outcome[ep] = what]

\* a use of the cursor or of the connection, noted when it comes after
\* the release
SinkOp(h) == [h EXCEPT !.late = h.late \/ conn # "open"]

\* every row waiting in the open transaction gets the fate f
Settle(h, f) ==
    [h EXCEPT !.fate = [t \in Tables |->
        [i \in 1..Len(h.fate[t]) |->
            IF h.fate[t][i] = "pending" THEN f ELSE h.fate[t][i]]]]

\* the place in hist.offered of row i of the current batch
Slot(i) == Len(hist.offered[table_name]) - Len(df.rows) + i

\* lines 49-55
ConnectOk ==
    /\ pc = "connect"
    /\ conn' = "open" /\ ep' = 1 /\ pc' = "loop"
    /\ hist' = [hist EXCEPT !.acquired = @ + 1]
    /\ UNCHANGED <<run, resp, data_json, raw_list, df, sql_cols, rowi,
                   values, inserted, db, txn, scrapedat, fn, arg, ret>>

\* line 49 raising: the script ends before the loop
ConnectFails ==
    /\ pc = "connect"
    /\ pc' = "failed"
    /\ UNCHANGED <<run, ep, conn, resp, data_json, raw_list, df, sql_cols,
                   rowi, values, inserted, db, txn, scrapedat, hist,
                   fn, arg, ret>>

\* line 100 raising a RequestException, handled at lines 267-268
FetchNetworkError ==
    /\ pc = "loop" /\ InLoop
    /\ hist' = [Outcome(hist, "network") EXCEPT !.fetched[ep] = @ + 1]
    /\ ep' = AfterHandler(ep)
    /\ UNCHANGED <<pc, run, conn, resp, data_json, raw_list, df, sql_cols,
                   rowi, values, inserted, db, txn, scrapedat, fn, arg, ret>>

\* lines 100-102: a response arrives; its status code is printed
FetchResponse ==
    /\ pc = "loop" /\ InLoop
    /\ \E code \in StatusCodes, body \in Bodies :
        /\ resp' = [status_code |-> code, body |-> body]
    /\ hist' = [hist EXCEPT !.fetched[ep] = @ + 1]
    /\ pc' = "decode"
    /\ UNCHANGED <<run, ep, conn, data_json, raw_list, df, sql_cols, rowi,
                   values, inserted, db, txn, scrapedat, fn, arg, ret>>

\* lines 106-114: resp.json() raises, the endpoint is skipped
DecodeFails ==
    /\ pc = "decode" /\ resp.body = NotJson
    /\ hist' = Outcome(hist, "notjson")
    /\ ep' = AfterContinue(ep) /\ pc' = "loop"
    /\ ClearLocals
    /\ UNCHANGED <<run, conn, db, txn, scrapedat, fn, arg, ret>>

\* line 107
Decode ==
    /\ pc = "decode" /\ resp.body # NotJson
    /\ data_json' = resp.body
    /\ pc' = "unwrap"
    /\ UNCHANGED <<run, ep, conn, resp, raw_list, df, sql_cols, rowi,
                   values, inserted, db, txn, scrapedat, hist, fn, arg, ret>>

\* line 125 raising AttributeError, handled at lines 269-270
UnwrapRaises ==
    /\ pc = "unwrap" /\ Unwrap(data_json).k = "raise"
    /\ hist' = Outcome(hist, "error")
    /\ ep' = AfterHandler(ep) /\ pc' = "loop"
    /\ ClearLocals
    /\ UNCHANGED <<run, conn, db, txn, scrapedat, fn, arg, ret>>

\* lines 117-133 with a falsy raw_list
NoUsableList ==
    /\ pc = "unwrap" /\ Unwrap(data_json).k = "ok"
    /\ ~Truthy(Unwrap(data_json).v)
    /\ hist' = Outcome(hist, "nolist")
    /\ ep' = AfterContinue(ep) /\ pc' = "loop"
    /\ ClearLocals
    /\ UNCHANGED <<run, conn, db, txn, scrapedat, fn, arg, ret>>

\* lines 117-131 with a truthy raw_list
Unwrapped ==
    /\ pc = "unwrap" /\ Unwrap(data_json).k = "ok"
    /\ Truthy(Unwrap(data_json).v)
    /\ raw_list' = Unwrap(data_json).v
    /\ pc' = "frame"
    /\ UNCHANGED <<run, ep, conn, resp, data_json, df, sql_cols, rowi,
                   values, inserted, db, txn, scrapedat, hist, fn, arg, ret>>

\* line 135 raising ValueError: raw_list is a number or a string
FrameRaises ==
    /\ pc = "frame" /\ raw_list.k # "list"
    /\ hist' = Outcome(hist, "error")
    /\ ep' = AfterHandler(ep) /\ pc' = "loop"
    /\ ClearLocals
    /\ UNCHANGED <<run, conn, db, txn, scrapedat, fn, arg, ret>>

\* lines 135-190: the frame, with its columns mapped
BuildFrame ==
    /\ pc = "frame" /\ raw_list.k = "list"
    /\ LET frame == Frame(raw_list.v)
       IN  df' = [cols |-> MapColumns(table_name, frame.cols),
                  rows |-> frame.rows]
    /\ pc' = "ensure"
    /\ UNCHANGED <<run, ep, conn, resp, data_json, raw_list, sql_cols, rowi,
                   values, inserted, db, txn, scrapedat, hist, fn, arg, ret>>

\* lines 197-199
NoRowsToInsert ==
    /\ pc = "ensure" /\ (df.rows = <<>> \/ df.cols = <<>>)
    /\ hist' = Outcome(hist, "nolist")
    /\ ep' = AfterContinue(ep) /\ pc' = "loop"
    /\ ClearLocals
    /\ UNCHANGED <<run, conn, db, txn, scrapedat, fn, arg, ret>>

\* line 202 raising (the check or the ALTER TABLE fails), handled at
\* lines 269-270
EnsureRaises ==
    /\ pc = "ensure" /\ df.rows # <<>> /\ df.cols # <<>>
    /\ hist' = SinkOp(Outcome(hist, "error"))
    /\ ep' = AfterHandler(ep) /\ pc' = "loop"
    /\ ClearLocals
    /\ UNCHANGED <<run, conn, db, txn, scrapedat, fn, arg, ret>>

\* lines 202-225: ensure_scrapedat (lines 33-46: the column is added, and
\* the connection committed, when it is missing), then sql_cols
EnsureScrapedAt ==
    /\ pc = "ensure" /\ df.rows # <<>> /\ df.cols # <<>>
    /\ scrapedat' = [scrapedat EXCEPT ![table_name] = TRUE]
    /\ db' = IF scrapedat[table_name] THEN db ELSE Committed(db, txn)
    /\ txn' = IF scrapedat[table_name] THEN txn ELSE NoRows
    /\ sql_cols' = SqlCols(table_name, df.cols)
    /\ rowi' = 1 /\ inserted' = 0
    /\ pc' = "insert"
    /\ LET h == IF scrapedat[table_name] THEN hist
                ELSE Settle(hist, "committed")
           built == [i \in 1..Len(df.rows) |->
                        BuildValues(df.rows[i], df.cols,
                                    SqlCols(table_name, df.cols), run)]
       IN  hist' = SinkOp(
                [h EXCEPT !.offered[table_name] = @ \o built,
                          !.fate[table_name] =
                              @ \o [i \in 1..Len(built) |-> "new"],
                          !.attempts[table_name] =
                              @ \o [i \in 1..Len(built) |-> 0]])
    /\ UNCHANGED <<values, run, ep, conn, resp, data_json, raw_list, df,
                   fn, arg, ret>>

\* lines 227-255: the values of the row are built, or the building raises
BuildRow ==
    /\ pc = "insert" /\ rowi <= Len(df.rows)
    /\ values' = BuildValues(df.rows[rowi], df.cols, sql_cols, run)
    /\ pc' = "execute"
    /\ UNCHANGED <<run, ep, conn, resp, data_json, raw_list, df, sql_cols,
                   rowi, inserted, db, txn, scrapedat, hist, fn, arg, ret>>

\* lines 227-251 raised ValueError for the row, handled at lines 269-270:
\* the rows inserted before it stay in the open transaction
RowRaises ==
    /\ pc = "execute" /\ values.k = "raise"
    /\ hist' = Outcome(hist, "error")
    /\ ep' = AfterHandler(ep) /\ pc' = "loop"
    /\ ClearLocals
    /\ UNCHANGED <<run, conn, db, txn, scrapedat, fn, arg, ret>>

\* lines 256-258
InsertRow ==
    /\ pc = "execute" /\ values.k = "ok"
    /\ txn' = [txn EXCEPT ![table_name] = Executed(@, values)]
    /\ inserted' = inserted + 1
    /\ rowi' = rowi + 1
    /\ values' = NoValues
    /\ pc' = "insert"
    /\ hist' = SinkOp([hist EXCEPT !.fate[table_name][Slot(rowi)] = "pending",
                                  !.attempts[table_name][Slot(rowi)] = @ + 1])
    /\ UNCHANGED <<run, ep, conn, resp, data_json, raw_list, df,
                   sql_cols, db, scrapedat, fn, arg, ret>>

\* lines 256-263: cursor.execute raises, the row is logged and skipped
InsertFails ==
    /\ pc = "execute" /\ values.k = "ok"
    /\ rowi' = rowi + 1
    /\ values' = NoValues
    /\ pc' = "insert"
    /\ hist' = SinkOp([hist EXCEPT !.fate[table_name][Slot(rowi)] = "failed",
                                  !.attempts[table_name][Slot(rowi)] = @ + 1])
    /\ UNCHANGED <<run, ep, conn, resp, data_json, raw_list, df,
                   sql_cols, inserted, db, txn, scrapedat, fn, arg, ret>>

\* lines 264-265
CommitBatch ==
    /\ pc = "insert" /\ rowi > Len(df.rows)
    /\ db' = Committed(db, txn)
    /\ txn' = NoRows
    /\ hist' = SinkOp(Settle(Outcome(hist, "ok"), "committed"))
    /\ ep' = ep + 1 /\ pc' = "loop"
    /\ ClearLocals
    /\ UNCHANGED <<run, conn, scrapedat, fn, arg, ret>>

\* lines 272-275: the loop is over; closing the connection rolls back
\* what the open transaction holds
Cleanup ==
    /\ pc = "loop" /\ ~InLoop
    /\ conn' = Closed(conn)
    /\ txn' = NoRows
    /\ hist' = SinkOp(Settle(hist, "rolledback"))
    /\ pc' = "done"
    /\ UNCHANGED <<run, ep, resp, data_json, raw_list, df, sql_cols, rowi,
                   values, inserted, db, scrapedat, fn, arg, ret>>

\* the script has ended: lines 274-275 have run, or line 49 raised
Ended == pc \in {"done", "failed"}

\* the script is run again
NewRun ==
    /\ Ended /\ run < MaxRuns
    /\ run' = run + 1
    /\ pc' = "connect" /\ ep' = 0 /\ conn' = "none"
    /\ hist' = [InitHist EXCEPT !.late = hist.late, !.db0 = db]
    /\ UNCHANGED <<values, resp, data_json, raw_list, df, sql_cols, rowi,
                   inserted, db, txn, scrapedat, fn, arg, ret>>

\* the steps of one execution of the script
Step ==
    \/ ConnectOk \/ ConnectFails
    \/ FetchNetworkError \/ FetchResponse
    \/ DecodeFails \/ Decode
    \/ UnwrapRaises \/ NoUsableList \/ Unwrapped
    \/ FrameRaises \/ BuildFrame
    \/ NoRowsToInsert \/ EnsureRaises \/ EnsureScrapedAt
    \/ BuildRow \/ RowRaises \/ InsertRow \/ InsertFails \/ CommitBatch
    \/ Cleanup

Next == Step \/ NewRun

Spec == Init /\ [][Next]_vars

\* The script is sequential: a step that can be taken is taken.  For the
\* release this is weak fairness of Cleanup.  For the steps in general it
\* is weak fairness of Step, with ENABLED <<Step>>_vars written out: every
\* position of the script other than its end has a next step.
FairSpec ==
    /\ Spec
    /\ WF_vars(Cleanup)
    /\ ([]<>Ended \/ []<><<Step>>_vars)

----------------------------------------------------------------------------
(* Properties of the script.                                               *)

\* the rows of a batch that met the fate f, in batch order
Chosen(rows, fates, f) ==
    LET at == SelectSeq([i \in 1..Len(rows) |-> i], LAMBDA i : fates[i] = f)
    IN  [j \in 1..Len(at) |-> rows[at[j]]]

\* C1 as stated: when a run is over, every table holds the rows it held
\* before the run followed by every row of the run's batch.
C1_WholeBatchPersisted ==
    pc = "done" =>
        \A t \in Tables : db[t] = hist.db0[t] \o hist.offered[t]

\* C1 (amended): at every moment of every run, a table holds the rows it
\* held before the run, in place and in order, followed by exactly the
\* rows of the run's batch whose insert succeeded and was committed, in
\* batch order and with equal rows kept; the rows inserted and not yet
\* committed are in the open transaction only.
C1_AppendOnlyCommitted ==
    \A t \in Tables :
        /\ db[t] = hist.db0[t]
                   \o Chosen(hist.offered[t], hist.fate[t], "committed")
        /\ txn[t] = Chosen(hist.offered[t], hist.fate[t], "pending")

\* the second run is over: the index table held two equal rows of the
\* first run's batch and now holds them followed by the second run's rows,
\* of which one insert failed
C1_Witness ==
    /\ pc = "done" /\ run = 2
    /\ Len(hist.db0[DailyActivity_1]) = 2
    /\ hist.db0[DailyActivity_1][1] = hist.db0[DailyActivity_1][2]
    /\ Len(db[DailyActivity_1]) = 3
    /\ db[DailyActivity_1][3] # db[DailyActivity_1][1]
    /\ hist.fate[DailyActivity_1] = <<"failed", "committed">>

\* C2: whatever the outcome of the endpoints before it, every endpoint is
\* fetched exactly once in a run: the endpoints the loop has passed or is
\* at have been fetched once, the others not yet, and when the run is over
\* each has been fetched once.
C2_EveryEndpointFetchedOnce ==
    pc \notin {"connect", "failed"} =>
        \A e \in DOMAIN endpoints :
            hist.fetched[e] =
                IF e < ep \/ (e = ep /\ pc # "loop") THEN 1 ELSE 0

\* a run is over in which the first endpoint ended in the general handler
\* and the second was fetched and committed
C2_Witness ==
    /\ pc = "done"
    /\ hist.outcome[1] = "error"
    /\ hist.outcome[2] = "ok"
    /\ hist.fetched[2] = 1

\* C3: between two endpoints and at the end of the run, every row of every
\* batch has been attempted exactly once, and at the end of the run a row
\* is in its table exactly when its insert succeeded.
C3_EveryRowAttemptedOnce ==
    pc \in {"loop", "done"} =>
        \A t \in Tables : \A i \in DOMAIN hist.offered[t] :
            /\ hist.attempts[t][i] = 1
            /\ pc = "done" => hist.fate[t][i] \in {"committed", "failed"}

\* C4: no row is written for an endpoint whose response had a status
\* code outside 2xx.
C4_BadStatusWritesNothing ==
    (InLoop /\ inserted > 0) => Is2xx(resp.status_code)

InRun ==
    pc \in {"loop", "decode", "unwrap", "frame", "ensure", "insert", "execute"}

C10_FailedEndpointTableUnchanged ==
    \A e \in DOMAIN endpoints :
        hist.outcome[e] = "error" =>
            db[endpoints[e]] = hist.db0[endpoints[e]]

============================================================================
